---- MODULE Spec2Model ----
(***************************************************************************)
(* Model of the workflow execution engine of MailMind:                     *)
(* src/src/ai/agents/workflow_orchestration_agent.py                       *)
(* (WorkflowOrchestrationAgent: template store, DAG scheduler              *)
(* _run_workflow, step executor _execute_step, cancel) together with the   *)
(* registrations made by src/src/ai/orchestrator.py.                       *)
(*                                                                         *)
(* The engine is an asyncio program: the code between two awaits runs      *)
(* atomically, so every action below is one such stretch of code.          *)
(***************************************************************************)
EXTENDS Integers, Sequences, FiniteSets, TLC

\* ------------------------------------------------------------------ bounds
\* largest retry_count an ad-hoc step definition carries
MaxRetryCount == 2
\* last value of the wall clock (datetime.utcnow) the model distinguishes
MaxClock == 2

\* ------------------------------------------------------- program constants
\* WorkflowStep.retry_count default
DefaultRetryCount == 3
\* WorkflowStep.timeout default, in seconds
DefaultTimeout == 300
\* Optional[datetime] = None
NoTime == 0

VARIABLES
    agent_registry,      \* self.agent_registry: names of the registered agents
    request,             \* payload of the execute_workflow task that started the run
    workflow_templates,  \* self.workflow_templates: template id -> list of steps
    active_workflows,    \* self.active_workflows: ids of the registered workflows
    wf_id,               \* workflow.workflow_id of the run
    steps,               \* workflow.steps: the step definitions, in list order
    wf_status,           \* workflow.status
    step_status,         \* step.status, by position in workflow.steps
    step_started_at,     \* step.started_at
    step_completed_at,   \* step.completed_at
    step_result,         \* step.result (the error class of the AgentResult)
    completed_steps,     \* local completed_steps of _run_workflow: a set of step ids
    ready_steps,         \* local ready_steps of _run_workflow: positions, in list order
    pc,                  \* where the coroutine _run_workflow is suspended
    run_result,          \* the dict _run_workflow returned
    task_pc,             \* where each _execute_step coroutine is suspended
    task_result,         \* what each _execute_step coroutine returned
    attempt,             \* loop variable attempt of _execute_step
    invocations,         \* number of agent.execute_task calls made for the step
    first_ok,            \* index (from 1) of the first call that reported success, 0 if none
    sleep_log,           \* the backoff sleeps of the step, in seconds, in order
    last_error,          \* error the latest attempt of the step coroutine ended with
    launch_pass,         \* number of the scheduling pass that launched the step, 0 if none
    passes,              \* number of scheduling passes that launched steps
    now,                 \* datetime.utcnow()
    instances,           \* two Workflow objects made from one template, and their runs
    uuid_count,          \* number of uuid.uuid4() calls made for them
    instantiated,        \* the last call of _create_workflow_from_template and its result
    agent_status,        \* BaseAgent.status of the agent whose execute_task is called
    metrics,             \* BaseAgent.metrics: tasks_processed and tasks_failed
    calls,               \* the execute_task calls made on it, in order: task, position, result
    shutdown,            \* the shutdown coroutine of that agent: position, calls open at its call
    step_objects,        \* whose WorkflowStep objects the run works on: "new" ones or a template's
    scheduled_tasks      \* SchedulingAgent.scheduled_tasks, with the coroutine executing each task

vars == << agent_registry, request, workflow_templates, active_workflows, wf_id, steps,
           wf_status, step_status,
           step_started_at, step_completed_at, step_result, completed_steps,
           ready_steps, pc, run_result, task_pc, task_result, attempt,
           invocations, first_ok, sleep_log, last_error, launch_pass, passes, now,
           instances, uuid_count, instantiated,
           agent_status, metrics, calls, shutdown, step_objects, scheduled_tasks >>

\* --------------------------------------------------------------- data model
\* a payload dict: a function from keys to values; {} is the empty one
EmptyPayload == [k \in {} |-> ""]

\* the dataclass WorkflowStep: the fields of a step definition (status, result,
\* started_at and completed_at of a step are kept in the variables of its run)
WorkflowStep(id, agent, tt, pl, deps, rc, to) ==
    [step_id |-> id, agent_name |-> agent, task_type |-> tt, payload |-> pl,
     dependencies |-> deps, retry_count |-> rc, timeout |-> to]

\* a step of a built-in template: payload {}, retry_count and timeout by default
TemplateStep(id, agent, tt, deps) ==
    WorkflowStep(id, agent, tt, EmptyPayload, deps, DefaultRetryCount, DefaultTimeout)

\* a step parsed from the step_data of a payload that gives no payload and no timeout
StepData(id, agent, deps, rc) ==
    WorkflowStep(id, agent, "test_task", EmptyPayload, deps, rc, DefaultTimeout)

\* the three built-in templates
NewEmailProcessing ==
    << TemplateStep("classify", "email_classifier", "classify_email", {}),
       TemplateStep("tag", "tagging_agent", "generate_tags", {"classify"}),
       TemplateStep("embed", "search_agent", "generate_embedding", {"classify"}),
       TemplateStep("notify", "notification_agent", "send_notification", {"classify", "tag"}) >>

ThreadSummary ==
    << TemplateStep("gather_thread", "search_agent", "get_thread_emails", {}),
       TemplateStep("summarize", "summary_agent", "summarize_thread", {"gather_thread"}),
       TemplateStep("extract_actions", "task_automation", "extract_action_items", {"summarize"}),
       TemplateStep("schedule_followup", "scheduling_agent", "schedule_followup", {"extract_actions"}) >>

SmartReply ==
    << TemplateStep("analyze_context", "email_classifier", "analyze_reply_context", {}),
       TemplateStep("get_similar", "search_agent", "find_similar_emails", {"analyze_context"}),
       TemplateStep("generate_reply", "response_agent", "generate_smart_reply", {"analyze_context", "get_similar"}) >>

DefaultTemplates ==
    [t \in {"new_email_processing", "thread_summary", "smart_reply"} |->
        CASE t = "new_email_processing" -> NewEmailProcessing
          [] t = "thread_summary" -> ThreadSummary
          [] OTHER -> SmartReply]

\* the agents AgentOrchestrator._initialize_agents registers with the workflow agent
InitialRegistry ==
    {"email_classifier", "tagging_agent", "search_agent", "summary_agent",
     "response_agent", "notification_agent", "task_automation"}

\* every agent name a step definition of the model uses
AgentNames == InitialRegistry \cup {"scheduling_agent"}

\* ------------------------------------------------- caller-supplied payloads
\* the definition test_workflow_with_dependencies stores: its steps carry payloads
DependencySteps ==
    << WorkflowStep("step1", "classifier", "test_task", [k \in {"step"} |-> "1"],
                    {}, DefaultRetryCount, DefaultTimeout),
       WorkflowStep("step2", "tagger", "test_task", [k \in {"step"} |-> "2"],
                    {"step1"}, DefaultRetryCount, DefaultTimeout),
       WorkflowStep("step3", "embedder", "test_task", [k \in {"step"} |-> "3"],
                    {"step1", "step2"}, DefaultRetryCount, DefaultTimeout) >>

\* workflow_data of an execute_workflow payload: "step" is a key the payloads of
\* DependencySteps define too (once with the same value), "email_id" is not
DataInputs ==
    UNION { [K -> {"1", "9"}] : K \in SUBSET {"step", "email_id"} }

\* ad-hoc step lists (the "steps" of an execute_workflow / create_workflow payload)
PairSteps(rc) ==
    << StepData("good_step", "email_classifier", {}, rc),
       StepData("bad_step", "tagging_agent", {"good_step"}, rc) >>

DiamondSteps(rc) ==
    << StepData("A", "email_classifier", {}, rc),
       StepData("B", "tagging_agent", {"A"}, rc),
       StepData("C", "search_agent", {"A"}, rc),
       StepData("D", "notification_agent", {"B", "C"}, rc) >>

\* a single step
SoloSteps(rc) ==
    << StepData("only", "email_classifier", {}, rc) >>

ChainSteps(rc) ==
    << StepData("A", "email_classifier", {}, rc),
       StepData("B", "tagging_agent", {"A"}, rc),
       StepData("C", "search_agent", {"B"}, rc) >>

CycleSteps(rc) ==
    << StepData("x", "email_classifier", {"y"}, rc),
       StepData("y", "tagging_agent", {"x"}, rc) >>

SelfSteps(rc) ==
    << StepData("first", "email_classifier", {}, rc),
       StepData("again", "tagging_agent", {"first", "again"}, rc) >>

Payload(tid, wid, stps) == [template_id |-> tid, workflow_id |-> wid, steps |-> stps]

\* (the diamond stops one short of MaxRetryCount: the longer retry loops of two
\* parallel steps are those of the template new_email_processing)
AdHocPayloads ==
    { Payload("", "diamond", DiamondSteps(rc)) : rc \in 0..(MaxRetryCount - 1) }
    \cup
    UNION { { Payload("", "pair", PairSteps(rc)),
              Payload("", "chain", ChainSteps(rc)),
              Payload("", "cycle", CycleSteps(rc)),
              Payload("", "self", SelfSteps(rc)) } : rc \in 0..MaxRetryCount }

\* payloads of create_workflow
CreatePayloads ==
    { Payload("", "cycle", CycleSteps(1)), Payload("", "pair", PairSteps(1)) }

\* payloads of execute_workflow: the id of a built-in template, a template id
\* that is never stored, the workflow_id of a definition that create_workflow
\* stores, or an ad-hoc definition
ExecutePayloads ==
    { Payload(t, "", << >>) :
        t \in {"new_email_processing", "thread_summary", "smart_reply", "no_such_template"} }
    \cup { Payload("", "pair", << >>) }
    \cup AdHocPayloads
    \cup { Payload("", "solo", SoloSteps(MaxRetryCount + 2)) }

\* uuid.uuid4() of the run
Uuid == "uuid1"

\* ------------------------------------------------------------------ helpers
RECURSIVE Pow2(_)
Pow2(n) == IF n = 0 THEN 1 ELSE 2 * Pow2(n - 1)

Positions(stps) == 1..Len(stps)

\* InstanceId keeping the step id of the template
InstanceIdUnprefixed(wid, sid) == sid

\* _create_workflow_from_template: step ids and dependencies get the workflow id prefix
InstanceId(wid, sid) == wid \o "_" \o sid

\* MergePayload letting the template win on a key both define
MergePayloadTemplateWins(pl, data) ==
    [k \in DOMAIN pl \cup DOMAIN data |-> IF k \in DOMAIN pl THEN pl[k] ELSE data[k]]

\* {**step.payload, **data}
MergePayload(pl, data) ==
    [k \in DOMAIN pl \cup DOMAIN data |-> IF k \in DOMAIN data THEN data[k] ELSE pl[k]]

\* CreateWorkflowFromTemplate copying the dependencies as the template names them
CreateWorkflowFromTemplateDepsKept(template, data, wid) ==
    [workflow_id |-> wid,
     steps |-> [i \in Positions(template) |->
                  WorkflowStep(InstanceId(wid, template[i].step_id),
                               template[i].agent_name,
                               template[i].task_type,
                               MergePayload(template[i].payload, data),
                               template[i].dependencies,
                               template[i].retry_count,
                               template[i].timeout)]]

CreateWorkflowFromTemplate(template, data, wid) ==
    [workflow_id |-> wid,
     steps |-> [i \in Positions(template) |->
                  WorkflowStep(InstanceId(wid, template[i].step_id),
                               template[i].agent_name,
                               template[i].task_type,
                               MergePayload(template[i].payload, data),
                               { InstanceId(wid, d) : d \in template[i].dependencies },
                               template[i].retry_count,
                               template[i].timeout)]]

\* payload.get("workflow_data", {})
WorkflowData(payload) ==
    IF "workflow_data" \in DOMAIN payload THEN payload.workflow_data ELSE EmptyPayload

\* _parse_workflow_from_payload: the steps are taken as given
ParseWorkflowFromPayload(payload) ==
    [workflow_id |-> IF payload.workflow_id = "" THEN Uuid ELSE payload.workflow_id,
     steps |-> payload.steps]

\* IsReady without the dependency test
IsReadyIgnoringDependencies(stps, st, cs, i) ==
    st[i] = "waiting"

\* IsReady taking a FAILED dependency for a satisfied one
IsReadyFailedCountsAsDone(stps, st, cs, i) ==
    /\ st[i] = "waiting"
    /\ stps[i].dependencies \subseteq
          (cs \cup { stps[j].step_id : j \in { k \in Positions(stps) : st[k] = "failed" } })

\* IsReady without the test of the step's own status
IsReadyWhateverStatus(stps, st, cs, i) ==
    stps[i].dependencies \subseteq cs

\* the ready steps of one scheduling pass, as positions in list order
IsReady(stps, st, cs, i) ==
    /\ st[i] = "waiting"
    /\ stps[i].dependencies \subseteq cs

\* ReadySteps finding nothing ready once a step has failed
ReadyStepsNoneAfterFailure(stps, st, cs) ==
    IF \E i \in Positions(stps) : st[i] = "failed"
    THEN << >>
    ELSE SelectSeq([i \in Positions(stps) |-> i], LAMBDA i : IsReady(stps, st, cs, i))

\* ReadySteps handing out one ready step per pass
ReadyStepsOneAtATime(stps, st, cs) ==
    LET ready == SelectSeq([i \in Positions(stps) |-> i], LAMBDA i : IsReady(stps, st, cs, i))
    IN  IF ready = << >> THEN ready ELSE << Head(ready) >>

ReadySteps(stps, st, cs) ==
    SelectSeq([i \in Positions(stps) |-> i], LAMBDA i : IsReady(stps, st, cs, i))

InSeq(x, sq) == \E k \in 1..Len(sq) : sq[k] = x

NoResult == [success |-> FALSE, status |-> "none", workflow_id |-> "", steps |-> << >>]

\* the two runs of the specification TwinSpec, in the order of their requests
Slots == {1, 2}

\* a Workflow object that is not made yet
NoInstance ==
    [template_id |-> "", workflow_id |-> "", steps |-> << >>, status |-> "pending",
     step_status |-> << >>, completed_steps |-> {}, ready_steps |-> << >>,
     pc |-> "none", task_pc |-> << >>, task_result |-> << >>, attempt |-> << >>]

\* no call of _create_workflow_from_template yet
NoInstantiation ==
    [template |-> << >>, data |-> EmptyPayload, workflow_id |-> "", steps |-> << >>,
     step_status |-> << >>, step_result |-> << >>]

\* --------------------------------------------------------------------- Init
\* no shutdown has been called
NoShutdown == [pc |-> "idle", open |-> {}, timed_out |-> FALSE]

Init ==
    /\ agent_registry = InitialRegistry
    /\ request = Payload("", "", << >>)
    /\ workflow_templates = DefaultTemplates
    /\ active_workflows = {}
    /\ wf_id = ""
    /\ steps = << >>
    /\ wf_status = "pending"
    /\ step_status = << >>
    /\ step_started_at = << >>
    /\ step_completed_at = << >>
    /\ step_result = << >>
    /\ completed_steps = {}
    /\ ready_steps = << >>
    /\ pc = "idle"
    /\ run_result = NoResult
    /\ task_pc = << >>
    /\ task_result = << >>
    /\ attempt = << >>
    /\ invocations = << >>
    /\ first_ok = << >>
    /\ sleep_log = << >>
    /\ last_error = << >>
    /\ launch_pass = << >>
    /\ passes = 0
    /\ now = 1
    /\ instances = [w \in Slots |-> NoInstance]
    /\ uuid_count = 0
    /\ instantiated = NoInstantiation
    /\ agent_status = "idle"
    /\ metrics = [tasks_processed |-> 0, tasks_failed |-> 0]
    /\ calls = << >>
    /\ shutdown = NoShutdown
    /\ step_objects = "new"
    /\ scheduled_tasks = [id \in {} |-> << >>]

\* ---------------------------------------------------- the scheduler's loop
\* StepsReport listing only the steps that are COMPLETED
StepsReportCompletedOnly(stps, st) ==
    LET done == SelectSeq([i \in Positions(stps) |-> i], LAMBDA i : st[i] = "completed")
    IN  [k \in 1..Len(done) |-> [step_id |-> stps[done[k]].step_id, status |-> st[done[k]]]]

\* the "steps" list of the result dict: one entry per step, in list order
StepsReport(stps, st) ==
    [i \in Positions(stps) |-> [step_id |-> stps[i].step_id, status |-> st[i]]]

\* _run_workflow, "Check final status" to the return: the workflow ends with
\* status ws and the result dict is built from it
Finalize(ws, stps, st) ==
    /\ wf_status' = ws
    /\ run_result' = [success |-> ws = "completed", status |-> ws, workflow_id |-> wf_id',
                      steps |-> StepsReport(stps, st)]
    /\ pc' = "done"

\* failed_steps of _run_workflow is not empty
HasFailedStep(stps, st) == \E i \in Positions(stps) : st[i] = "failed"

\* FinalStatus leaving a CANCELLED status as it is
FinalStatusKeepsCancelled(ws) == IF ws \notin {"failed", "cancelled"} THEN "completed" ELSE ws

\* the status the workflow ends with when the while loop ends normally
FinalStatus(ws) == IF ws # "failed" THEN "completed" ELSE ws

\* _run_workflow from the head of the while loop to its next await (or to its
\* return), given the step definitions stps, the step statuses st, the set cs
\* of completed step ids, the workflow status ws and the step coroutines tp
RunLoop(stps, st, cs, ws, tp) ==
    IF Cardinality(cs) < Len(stps)
    THEN LET ready == ReadySteps(stps, st, cs) IN
         IF ready = << >>
         THEN IF HasFailedStep(stps, st)
              THEN \* a failed step and nothing ready: FAILED, break
                   /\ Finalize("failed", stps, st)
                   /\ ready_steps' = ready
                   /\ task_pc' = tp
                   /\ passes' = passes
              ELSE \* await asyncio.sleep(0.1); continue
                   /\ pc' = "sleep"
                   /\ wf_status' = ws
                   /\ ready_steps' = ready
                   /\ task_pc' = tp
                   /\ passes' = passes
                   /\ UNCHANGED run_result
         ELSE \* one coroutine per ready step, await asyncio.gather
              /\ pc' = "gather"
              /\ wf_status' = ws
              /\ ready_steps' = ready
              /\ task_pc' = [i \in Positions(stps) |->
                               IF InSeq(i, ready) THEN "scheduled" ELSE tp[i]]
              /\ passes' = passes + 1
              /\ UNCHANGED run_result
    ELSE \* the loop ends: COMPLETED unless the status is FAILED
         /\ Finalize(FinalStatus(ws), stps, st)
         /\ ready_steps' = ready_steps
         /\ task_pc' = tp
         /\ passes' = passes

\* StepObjects running the template's own step objects
StepObjectsOfTemplate(payload) ==
    IF payload.template_id # "" /\ payload.template_id \in DOMAIN workflow_templates
    THEN payload.template_id
    ELSE "new"

\* which objects the steps list of the workflow holds: _create_workflow_from_template
\* and _parse_workflow_from_payload both call WorkflowStep(...) for every step, so
\* the run gets objects of its own ("new"), never those of a stored template
StepObjects(payload) == "new"

\* _execute_workflow: the workflow is instantiated from the template, or parsed
\* from the payload; _run_workflow registers it, sets it RUNNING and enters the loop
ExecuteWorkflow(payload) ==
    /\ pc = "idle"
    /\ request' = payload
    /\ LET workflow ==
              IF payload.template_id # "" /\ payload.template_id \in DOMAIN workflow_templates
              THEN CreateWorkflowFromTemplate(workflow_templates[payload.template_id],
                                              WorkflowData(payload), Uuid)
              ELSE ParseWorkflowFromPayload(payload)
           P == Positions(workflow.steps)
       IN  /\ wf_id' = workflow.workflow_id
           /\ steps' = workflow.steps
           /\ active_workflows' = active_workflows \cup {workflow.workflow_id}
           /\ step_status' = [i \in P |-> "waiting"]
           /\ step_started_at' = [i \in P |-> NoTime]
           /\ step_completed_at' = [i \in P |-> NoTime]
           /\ step_result' = [i \in P |-> "none"]
           /\ completed_steps' = {}
           /\ task_result' = [i \in P |-> "none"]
           /\ attempt' = [i \in P |-> 0]
           /\ invocations' = [i \in P |-> 0]
           /\ first_ok' = [i \in P |-> 0]
           /\ sleep_log' = [i \in P |-> << >>]
           /\ last_error' = [i \in P |-> "none"]
           /\ launch_pass' = [i \in P |-> 0]
           /\ RunLoop(workflow.steps, [i \in P |-> "waiting"], {}, "running",
                      [i \in P |-> "none"])
    /\ step_objects' = StepObjects(payload)
    /\ UNCHANGED << scheduled_tasks, agent_status, metrics, calls, shutdown, instantiated, instances, uuid_count, agent_registry, workflow_templates, now >>

\* GatherDone returning as soon as one coroutine of the batch has returned
GatherDoneOnFirst ==
    \E k \in 1..Len(ready_steps) : task_pc[ready_steps[k]] = "returned"

\* asyncio.gather returns once every coroutine of the batch has returned
GatherDone ==
    \A k \in 1..Len(ready_steps) : task_pc[ready_steps[k]] = "returned"

\* "if result.success" for the result the coroutine of step i returned
Succeeded(i) == task_result[i] = "success"

\* StepResult keeping the outcome of a successful step only
StepResultOnSuccessOnly(i, batch) ==
    IF i \in batch /\ task_result[i] = "success" THEN task_result[i] ELSE step_result[i]

\* "step.result = result": the outcome a step of the batch gets, success or not
StepResult(i, batch) ==
    IF i \in batch THEN task_result[i] ELSE step_result[i]

\* _run_workflow, "Process results": a successful result completes the step and
\* adds its id to completed_steps, any other result fails it; then the loop goes on.
\* The coroutines of the batch are over, and their locals with them.
\* (_execute_step catches every Exception of the agent call, so gather hands no
\* exception to this loop: the isinstance(result, Exception) branch is not taken.)
ProcessResults ==
    /\ pc = "gather"
    /\ GatherDone
    /\ UNCHANGED << scheduled_tasks, step_objects, agent_status, metrics, calls, shutdown, instantiated, instances, uuid_count, agent_registry, request, workflow_templates, active_workflows, wf_id, steps,
                    step_started_at, task_result, attempt, invocations,
                    first_ok, sleep_log, launch_pass, now >>
    /\ LET batch == { ready_steps[k] : k \in 1..Len(ready_steps) }
           st == [i \in Positions(steps) |->
                    IF i \in batch
                    THEN IF Succeeded(i) THEN "completed" ELSE "failed"
                    ELSE step_status[i]]
           cs == completed_steps \cup
                    { steps[i].step_id : i \in { j \in batch : Succeeded(j) } }
       IN  /\ step_status' = st
           /\ completed_steps' = cs
           /\ step_result' = [i \in Positions(steps) |-> StepResult(i, batch)]
           /\ step_completed_at' = [i \in Positions(steps) |->
                                IF i \in batch THEN now ELSE step_completed_at[i]]
           /\ last_error' = [i \in Positions(steps) |-> "none"]
           /\ RunLoop(steps, st, cs, wf_status, task_pc)

\* the 0.1 s sleep of a pass that found nothing ready is over: the loop goes on
PollAgain ==
    /\ pc = "sleep"
    /\ UNCHANGED << scheduled_tasks, step_objects, agent_status, metrics, calls, shutdown, instantiated, instances, uuid_count, agent_registry, request, workflow_templates, active_workflows, wf_id, steps,
                    step_status, step_started_at, step_completed_at,
                    step_result, completed_steps, task_result, attempt, invocations,
                    first_ok, sleep_log, last_error, launch_pass, now >>
    /\ RunLoop(steps, step_status, completed_steps, wf_status, task_pc)

\* ------------------------------------------------------- the step executor
\* The workflow timestamps (workflow.started_at, workflow.completed_at) are
\* written by the engine and read by nothing: they are left out of the state.

\* the coroutines of a batch start in list order (asyncio runs them first in,
\* first out): position i is the first one of the batch that has not started
\* NextToStart letting a coroutine start only after the earlier ones returned
NextToStartAfterReturn(i) ==
    \E k \in 1..Len(ready_steps) :
        /\ ready_steps[k] = i
        /\ task_pc[i] = "scheduled"
        /\ \A j \in 1..(k - 1) : task_pc[ready_steps[j]] = "returned"

NextToStart(i) ==
    \E k \in 1..Len(ready_steps) :
        /\ ready_steps[k] = i
        /\ task_pc[i] = "scheduled"
        /\ \A j \in 1..(k - 1) : task_pc[ready_steps[j]] # "scheduled"

\* AgentFound going on without the lookup
AgentFoundAlways(i) == TRUE

\* self.agent_registry.get(step.agent_name) finds an agent
AgentFound(i) == steps[i].agent_name \in agent_registry

\* InRange with the bound off by one
InRangeOffByOne(i, a) == a <= steps[i].retry_count

\* "for attempt in range(step.retry_count)": a is a value the loop variable takes
InRange(i, a) == a < steps[i].retry_count

\* SleepsAfterFailure sleeping after the last attempt too
SleepsAfterEveryFailure(i) == attempt[i] < steps[i].retry_count

\* "if attempt < step.retry_count - 1": the failed attempt is followed by a backoff sleep
SleepsAfterFailure(i) == attempt[i] < steps[i].retry_count - 1

\* _execute_step up to its first await: the step is RUNNING; without an agent the
\* coroutine returns at once, otherwise it makes the first call of the retry loop
\* (or returns the failure after the loop when retry_count allows no attempt)
StartStep(i) ==
    /\ pc = "gather"
    /\ NextToStart(i)
    /\ step_status' = [step_status EXCEPT ![i] = "running"]
    /\ step_started_at' = [step_started_at EXCEPT ![i] = now]
    /\ launch_pass' = [launch_pass EXCEPT ![i] = passes]
    /\ IF ~AgentFound(i)
       THEN /\ task_pc' = [task_pc EXCEPT ![i] = "returned"]
            /\ task_result' = [task_result EXCEPT ![i] = "agent_not_found"]
            /\ UNCHANGED invocations
       ELSE IF InRange(i, 0)
       THEN /\ task_pc' = [task_pc EXCEPT ![i] = "call"]
            /\ invocations' = [invocations EXCEPT ![i] = @ + 1]
            /\ UNCHANGED task_result
       ELSE /\ task_pc' = [task_pc EXCEPT ![i] = "returned"]
            /\ task_result' = [task_result EXCEPT ![i] = "retries_exhausted"]
            /\ UNCHANGED invocations
    /\ UNCHANGED << scheduled_tasks, step_objects, agent_status, metrics, calls, shutdown, instantiated, instances, uuid_count, agent_registry, request, workflow_templates, active_workflows, wf_id, steps,
                    wf_status, step_completed_at,
                    step_result, completed_steps, ready_steps, pc, run_result, attempt,
                    first_ok, sleep_log, last_error, passes, now >>

\* agent.execute_task returned a result with success: the coroutine returns it
WorkerSucceeds(i) ==
    /\ i \in Positions(steps)
    /\ task_pc[i] = "call"
    /\ task_pc' = [task_pc EXCEPT ![i] = "returned"]
    /\ task_result' = [task_result EXCEPT ![i] = "success"]
    /\ first_ok' = [first_ok EXCEPT ![i] = IF @ = 0 THEN invocations[i] ELSE @]
    /\ last_error' = [last_error EXCEPT ![i] = "none"]
    /\ UNCHANGED << scheduled_tasks, step_objects, agent_status, metrics, calls, shutdown, instantiated, instances, uuid_count, agent_registry, request, workflow_templates, active_workflows, wf_id, steps,
                    wf_status, step_status,
                    step_started_at, step_completed_at, step_result, completed_steps,
                    ready_steps, pc, run_result, attempt, invocations, sleep_log,
                    launch_pass, passes, now >>

\* the retry loop goes to its next iteration and calls the agent again, or it is
\* over and the coroutine returns "Step failed after N attempts"
NextIteration(i) ==
    IF InRange(i, attempt[i] + 1)
    THEN /\ attempt' = [attempt EXCEPT ![i] = @ + 1]
         /\ invocations' = [invocations EXCEPT ![i] = @ + 1]
         /\ task_pc' = [task_pc EXCEPT ![i] = "call"]
         /\ UNCHANGED task_result
    ELSE /\ task_pc' = [task_pc EXCEPT ![i] = "returned"]
         /\ task_result' = [task_result EXCEPT ![i] = "retries_exhausted"]
         /\ UNCHANGED << attempt, invocations >>

\* error_message of the AgentResult returned after the retry loop:
\* f"Step failed after {step.retry_count} attempts"
ExhaustedMessage(i) ==
    [text |-> "Step failed after attempts", attempts |-> steps[i].retry_count]

\* a failed attempt with error err (logged): a backoff sleep of 2 ** attempt
\* seconds when the attempt is not the last one, else straight to the next iteration
AttemptFailed(i, err) ==
    /\ last_error' = [last_error EXCEPT ![i] = err]
    /\ IF SleepsAfterFailure(i)
       THEN /\ task_pc' = [task_pc EXCEPT ![i] = "backoff"]
            /\ sleep_log' = [sleep_log EXCEPT ![i] = Append(@, Pow2(attempt[i]))]
            /\ UNCHANGED << task_result, attempt, invocations >>
       ELSE /\ NextIteration(i)
            /\ UNCHANGED sleep_log
    /\ UNCHANGED << scheduled_tasks, step_objects, agent_status, metrics, calls, shutdown, instantiated, instances, uuid_count, agent_registry, request, workflow_templates, active_workflows, wf_id, steps,
                    wf_status, step_status,
                    step_started_at, step_completed_at, step_result, completed_steps,
                    ready_steps, pc, run_result, first_ok,
                    launch_pass, passes, now >>

\* agent.execute_task returned a result without success: a failure the worker
\* reports (or its exception, which BaseAgent.execute_task turns into such a result)
WorkerFails(i) ==
    /\ i \in Positions(steps)
    /\ task_pc[i] = "call"
    /\ AttemptFailed(i, "reported")

\* BaseAgent.execute_task, except asyncio.TimeoutError: the result it returns for
\* a call that got no reply within task.timeout
TimeoutResult == [success |-> FALSE, error_message |-> "timed_out"]

\* WorkerTimesOut with the timeout bounding the whole retry sequence: the step
\* gives up at the first timeout
WorkerTimesOutEndsStep(i) ==
    /\ i \in Positions(steps)
    /\ task_pc[i] = "call"
    /\ task_pc' = [task_pc EXCEPT ![i] = "returned"]
    /\ task_result' = [task_result EXCEPT ![i] = "retries_exhausted"]
    /\ last_error' = [last_error EXCEPT ![i] = TimeoutResult.error_message]
    /\ UNCHANGED << scheduled_tasks, step_objects, agent_status, metrics, calls, shutdown, instantiated, instances, uuid_count, agent_registry, request, workflow_templates, active_workflows, wf_id, steps,
                    wf_status, step_status,
                    step_started_at, step_completed_at, step_result, completed_steps,
                    ready_steps, pc, run_result, attempt, invocations, first_ok,
                    sleep_log, launch_pass, passes, now >>

\* the call of agent.execute_task got no reply within the timeout of the step:
\* asyncio.wait_for gives up this one call and the retry loop gets TimeoutResult,
\* which it treats as any result without success
WorkerTimesOut(i) ==
    /\ i \in Positions(steps)
    /\ task_pc[i] = "call"
    /\ ~TimeoutResult.success
    /\ AttemptFailed(i, TimeoutResult.error_message)

\* agent.execute_task raised: the except branch of the retry loop
WorkerRaises(i) ==
    /\ i \in Positions(steps)
    /\ task_pc[i] = "call"
    /\ AttemptFailed(i, "raised")

\* the backoff sleep is over
BackoffOver(i) ==
    /\ i \in Positions(steps)
    /\ task_pc[i] = "backoff"
    /\ NextIteration(i)
    /\ UNCHANGED << scheduled_tasks, step_objects, agent_status, metrics, calls, shutdown, instantiated, instances, uuid_count, agent_registry, request, workflow_templates, active_workflows, wf_id, steps,
                    wf_status, step_status,
                    step_started_at, step_completed_at, step_result, completed_steps,
                    ready_steps, pc, run_result, first_ok, sleep_log, last_error,
                    launch_pass, passes, now >>

\* ------------------------------------------------------ the other requests
\* CancelWorkflow cancelling the step coroutines that have not returned as well
CancelWorkflowInterrupts(wid) ==
    /\ wid \in active_workflows
    /\ wid = wf_id
    /\ wf_status' = "cancelled"
    /\ task_pc' = [i \in Positions(steps) |->
                     IF task_pc[i] \in {"scheduled", "call", "backoff"}
                     THEN "cancelled" ELSE task_pc[i]]
    /\ UNCHANGED << scheduled_tasks, step_objects, agent_status, metrics, calls, shutdown, instantiated, instances, uuid_count, agent_registry, request,
                    workflow_templates, active_workflows, wf_id, steps,
                    step_status, step_started_at, step_completed_at,
                    step_result, completed_steps, ready_steps, pc, run_result,
                    task_result, attempt, invocations, first_ok, sleep_log,
                    last_error, launch_pass, passes, now >>

\* _cancel_workflow for a registered workflow: its status becomes CANCELLED
\* (for an unknown id it returns "not found" and changes nothing)
CancelWorkflow(wid) ==
    /\ wid \in active_workflows
    /\ wid = wf_id
    /\ wf_status' = "cancelled"
    /\ UNCHANGED << scheduled_tasks, step_objects, agent_status, metrics, calls, shutdown, instantiated, instances, uuid_count, agent_registry, request, workflow_templates, active_workflows, wf_id, steps,
                    step_status, step_started_at, step_completed_at,
                    step_result, completed_steps, ready_steps, pc, run_result, task_pc,
                    task_result, attempt, invocations, first_ok, sleep_log,
                    last_error, launch_pass, passes, now >>

\* _create_workflow: the parsed definition is stored as a template under its id
CreateWorkflow(payload) ==
    /\ LET workflow == ParseWorkflowFromPayload(payload) IN
       workflow_templates' =
           [t \in DOMAIN workflow_templates \cup {workflow.workflow_id} |->
               IF t = workflow.workflow_id THEN workflow.steps ELSE workflow_templates[t]]
    /\ UNCHANGED << scheduled_tasks, step_objects, agent_status, metrics, calls, shutdown, instantiated, instances, uuid_count, agent_registry, request, active_workflows, wf_id, steps, wf_status,
                    step_status, step_started_at,
                    step_completed_at, step_result, completed_steps, ready_steps, pc,
                    run_result, task_pc, task_result, attempt, invocations, first_ok,
                    sleep_log, last_error, launch_pass, passes, now >>

\* time passes
Tick ==
    /\ now < MaxClock
    /\ now' = now + 1
    /\ UNCHANGED << scheduled_tasks, step_objects, agent_status, metrics, calls, shutdown, instantiated, instances, uuid_count, agent_registry, request, workflow_templates, active_workflows, wf_id, steps,
                    wf_status, step_status,
                    step_started_at, step_completed_at, step_result, completed_steps,
                    ready_steps, pc, run_result, task_pc, task_result, attempt,
                    invocations, first_ok, sleep_log, last_error, launch_pass, passes >>

Next ==
    \/ \E payload \in ExecutePayloads : ExecuteWorkflow(payload)
    \/ ProcessResults
    \/ PollAgain
    \/ \E i \in Positions(steps) : StartStep(i)
    \/ \E i \in Positions(steps) : WorkerSucceeds(i)
    \/ \E i \in Positions(steps) : WorkerFails(i)
    \/ \E i \in Positions(steps) : WorkerTimesOut(i)
    \/ \E i \in Positions(steps) : WorkerRaises(i)
    \/ \E i \in Positions(steps) : BackoffOver(i)
    \/ \E wid \in active_workflows : CancelWorkflow(wid)
    \/ \E payload \in CreatePayloads : CreateWorkflow(payload)
    \/ Tick

Spec == Init /\ [][Next]_vars

\* the scheduling of asyncio: a coroutine that can run does run, a sleep ends,
\* and every worker invocation returns
FairSpec ==
    /\ Spec
    /\ WF_vars(ProcessResults)
    /\ WF_vars(PollAgain)
    /\ WF_vars(\E i \in Positions(steps) :
                  \/ StartStep(i)
                  \/ WorkerSucceeds(i)
                  \/ WorkerFails(i)
                  \/ WorkerTimesOut(i)
                  \/ WorkerRaises(i)
                  \/ BackoffOver(i))

\* ------------------------------------- two instances of one template
\* The specification TwinSpec runs two workflows made from the same template by
\* the engine at once. Each run is the code of the single run above, on the
\* fields of its own Workflow object; the agent registry, the template store and
\* active_workflows are the ones of the engine.

\* the variables of the single run, which the two runs below leave alone
run_vars == << request, wf_id, steps, wf_status, step_status, step_started_at,
               step_completed_at, step_result, completed_steps, ready_steps, pc,
               run_result, task_pc, task_result, attempt, invocations, first_ok,
               sleep_log, last_error, launch_pass, passes, now, step_objects >>

\* the templates the two instances are made from: a built-in one and the stored
\* cyclic definition
TwinTemplates == {"smart_reply", "cycle"}

\* str(uuid.uuid4()) of the n-th call: a fresh id at every call
Uuid4(n) == "uuid" \o ToString(n)

\* the while loop of _run_workflow on the fields of the Workflow object r, from
\* the head of the loop to its next await or to the return
TwinRunLoop(r) ==
    IF Cardinality(r.completed_steps) < Len(r.steps)
    THEN LET ready == ReadySteps(r.steps, r.step_status, r.completed_steps) IN
         IF ready = << >>
         THEN IF HasFailedStep(r.steps, r.step_status)
              THEN [r EXCEPT !.status = "failed", !.pc = "done", !.ready_steps = ready]
              ELSE [r EXCEPT !.pc = "sleep", !.ready_steps = ready]
         ELSE [r EXCEPT !.pc = "gather", !.ready_steps = ready,
                        !.task_pc = [i \in Positions(r.steps) |->
                                        IF InSeq(i, ready) THEN "scheduled" ELSE @[i]]]
    ELSE [r EXCEPT !.status = FinalStatus(r.status), !.pc = "done"]

\* _execute_workflow with the id t of a stored template, for the w-th request:
\* the second request names the template of the first
TwinExecute(w, t) ==
    /\ instances[w].pc = "none"
    /\ w = 1 \/ (instances[1].pc # "none" /\ t = instances[1].template_id)
    /\ t \in DOMAIN workflow_templates
    /\ LET workflow == CreateWorkflowFromTemplate(workflow_templates[t], EmptyPayload,
                                                  Uuid4(uuid_count + 1))
           P == Positions(workflow.steps)
       IN  /\ uuid_count' = uuid_count + 1
           /\ active_workflows' = active_workflows \cup {workflow.workflow_id}
           /\ instances' = [instances EXCEPT ![w] =
                 TwinRunLoop([template_id |-> t,
                              workflow_id |-> workflow.workflow_id,
                              steps |-> workflow.steps,
                              status |-> "running",
                              step_status |-> [i \in P |-> "waiting"],
                              completed_steps |-> {},
                              ready_steps |-> << >>,
                              pc |-> "none",
                              task_pc |-> [i \in P |-> "none"],
                              task_result |-> [i \in P |-> "none"],
                              attempt |-> [i \in P |-> 0]])]
    /\ UNCHANGED << scheduled_tasks, step_objects, agent_status, metrics, calls, shutdown, instantiated, agent_registry, workflow_templates, run_vars >>

\* what the two runs leave alone in every step but TwinExecute
TwinFrame == UNCHANGED << scheduled_tasks, step_objects, agent_status, metrics, calls, shutdown, instantiated, agent_registry, workflow_templates,
                          active_workflows, uuid_count, run_vars >>

\* "Process results" of run w, then its loop goes on
TwinProcessResults(w) ==
    LET r == instances[w]
        batch == { r.ready_steps[k] : k \in 1..Len(r.ready_steps) }
        ok == { i \in batch : r.task_result[i] = "success" }
    IN  /\ r.pc = "gather"
        /\ \A i \in batch : r.task_pc[i] = "returned"
        /\ instances' = [instances EXCEPT ![w] =
              TwinRunLoop([r EXCEPT
                  !.step_status = [i \in Positions(r.steps) |->
                                     IF i \in ok THEN "completed"
                                     ELSE IF i \in batch THEN "failed" ELSE @[i]],
                  !.completed_steps = @ \cup { r.steps[i].step_id : i \in ok }])]
        /\ TwinFrame

\* the 0.1 s sleep of run w is over
TwinPollAgain(w) ==
    /\ instances[w].pc = "sleep"
    /\ instances' = [instances EXCEPT ![w] = TwinRunLoop(@)]
    /\ TwinFrame

\* _execute_step of step i of run w up to its first await
TwinStartStep(w, i) ==
    LET r == instances[w] IN
    /\ r.pc = "gather"
    /\ \E k \in 1..Len(r.ready_steps) :
          /\ r.ready_steps[k] = i
          /\ r.task_pc[i] = "scheduled"
          /\ \A j \in 1..(k - 1) : r.task_pc[r.ready_steps[j]] # "scheduled"
    /\ instances' = [instances EXCEPT ![w] =
          IF r.steps[i].agent_name \notin agent_registry
          THEN [r EXCEPT !.step_status[i] = "running", !.task_pc[i] = "returned",
                         !.task_result[i] = "agent_not_found"]
          ELSE IF 0 < r.steps[i].retry_count
          THEN [r EXCEPT !.step_status[i] = "running", !.task_pc[i] = "call"]
          ELSE [r EXCEPT !.step_status[i] = "running", !.task_pc[i] = "returned",
                         !.task_result[i] = "retries_exhausted"]]
    /\ TwinFrame

\* the call made for step i of run w returned a result with success
TwinWorkerSucceeds(w, i) ==
    /\ i \in Positions(instances[w].steps)
    /\ instances[w].task_pc[i] = "call"
    /\ instances' = [instances EXCEPT ![w].task_pc[i] = "returned",
                                      ![w].task_result[i] = "success"]
    /\ TwinFrame

\* the call made for step i of run w failed (by a result without success or by an
\* exception): a backoff sleep when an attempt is left, else the final failure
TwinWorkerFails(w, i) ==
    LET r == instances[w] IN
    /\ i \in Positions(r.steps)
    /\ r.task_pc[i] = "call"
    /\ instances' = [instances EXCEPT ![w] =
          IF r.attempt[i] < r.steps[i].retry_count - 1
          THEN [r EXCEPT !.task_pc[i] = "backoff"]
          ELSE [r EXCEPT !.task_pc[i] = "returned",
                         !.task_result[i] = "retries_exhausted"]]
    /\ TwinFrame

\* the backoff sleep of step i of run w is over: the next call is made
TwinBackoffOver(w, i) ==
    /\ i \in Positions(instances[w].steps)
    /\ instances[w].task_pc[i] = "backoff"
    /\ instances' = [instances EXCEPT ![w].task_pc[i] = "call",
                                      ![w].attempt[i] = @ + 1]
    /\ TwinFrame

TwinNext ==
    \/ \E w \in Slots : \E t \in TwinTemplates : TwinExecute(w, t)
    \/ \E w \in Slots : TwinProcessResults(w)
    \/ \E w \in Slots : TwinPollAgain(w)
    \/ \E w \in Slots : \E i \in Positions(instances[w].steps) : TwinStartStep(w, i)
    \/ \E w \in Slots : \E i \in Positions(instances[w].steps) : TwinWorkerSucceeds(w, i)
    \/ \E w \in Slots : \E i \in Positions(instances[w].steps) : TwinWorkerFails(w, i)
    \/ \E w \in Slots : \E i \in Positions(instances[w].steps) : TwinBackoffOver(w, i)
    \/ \E payload \in CreatePayloads : CreateWorkflow(payload)

TwinSpec == Init /\ [][TwinNext]_vars

\* ------------------------------------------------- cancelling during a run
\* The specification CancelSpec is the engine with the requests that matter when
\* a run is cancelled: one run (of a built-in template with parallel steps, of a
\* definition with a failing dependency, or of one that never gets ready) and
\* cancel_workflow at any moment, under the scheduling of asyncio.
CancelPayloads ==
    { Payload("new_email_processing", "", << >>),
      Payload("", "pair", PairSteps(MaxRetryCount)),
      Payload("", "cycle", CycleSteps(1)) }

CancelNext ==
    \/ \E payload \in CancelPayloads : ExecuteWorkflow(payload)
    \/ ProcessResults
    \/ PollAgain
    \/ \E i \in Positions(steps) : StartStep(i)
    \/ \E i \in Positions(steps) : WorkerSucceeds(i)
    \/ \E i \in Positions(steps) : WorkerFails(i)
    \/ \E i \in Positions(steps) : WorkerTimesOut(i)
    \/ \E i \in Positions(steps) : WorkerRaises(i)
    \/ \E i \in Positions(steps) : BackoffOver(i)
    \/ \E wid \in active_workflows : CancelWorkflow(wid)

CancelSpec ==
    /\ Init
    /\ [][CancelNext]_vars
    /\ WF_vars(ProcessResults)
    /\ WF_vars(PollAgain)
    /\ WF_vars(\E i \in Positions(steps) :
                  \/ StartStep(i)
                  \/ WorkerSucceeds(i)
                  \/ WorkerFails(i)
                  \/ WorkerTimesOut(i)
                  \/ WorkerRaises(i)
                  \/ BackoffOver(i))

\* ------------------------------------------- definitions with a shared id
\* _parse_workflow_from_payload takes the step ids as they come. UncheckedSpec
\* is the engine run on a definition in which two steps carry the same step_id
\* (and, beside it, on the pair of the tests).
TwiceSteps(rc) ==
    << StepData("same", "email_classifier", {}, rc),
       StepData("same", "tagging_agent", {}, rc),
       StepData("last", "search_agent", {"same"}, rc) >>

UncheckedPayloads ==
    { Payload("", "twice", TwiceSteps(rc)) : rc \in 1..MaxRetryCount }
    \cup { Payload("", "pair", PairSteps(1)) }

UncheckedNext ==
    \/ \E payload \in UncheckedPayloads : ExecuteWorkflow(payload)
    \/ ProcessResults
    \/ PollAgain
    \/ \E i \in Positions(steps) : StartStep(i)
    \/ \E i \in Positions(steps) : WorkerSucceeds(i)
    \/ \E i \in Positions(steps) : WorkerFails(i)
    \/ \E i \in Positions(steps) : BackoffOver(i)
    \/ Tick

UncheckedSpec == Init /\ [][UncheckedNext]_vars

\* ----------------------------------------------- template instantiation
\* The specification InstantiateSpec applies _create_workflow_from_template to
\* the stored templates with the input data of DataInputs.

\* number of instantiations the specification makes
MaxInstantiations == 2

\* _create_workflow_from_template(template, data) for the stored template t; the
\* new WorkflowStep objects get the dataclass defaults: WAITING, no result
Instantiate(t, data) ==
    /\ uuid_count < MaxInstantiations
    /\ t \in DOMAIN workflow_templates
    /\ uuid_count' = uuid_count + 1
    /\ LET workflow == CreateWorkflowFromTemplate(workflow_templates[t], data,
                                                  Uuid4(uuid_count + 1))
       IN  instantiated' =
              [template |-> workflow_templates[t],
               data |-> data,
               workflow_id |-> workflow.workflow_id,
               steps |-> workflow.steps,
               step_status |-> [i \in Positions(workflow.steps) |-> "waiting"],
               step_result |-> [i \in Positions(workflow.steps) |-> "none"]]
    /\ UNCHANGED << scheduled_tasks, agent_status, metrics, calls, shutdown, instances,
                    agent_registry, workflow_templates, active_workflows, run_vars >>

InstantiateNext ==
    \/ \E t \in DOMAIN workflow_templates : \E data \in DataInputs : Instantiate(t, data)
    \/ CreateWorkflow(Payload("", "test_dependencies", DependencySteps))

InstantiateSpec == Init /\ [][InstantiateNext]_vars

\* ------------------------------------------------------------ the base agent
\* BaseAgent.execute_task and BaseAgent.shutdown, for two agents: the agent of the
\* base-agent tests, whose process_task returns or raises as the caller arranges
\* (AgentSpec), and the workflow agent, whose process_task dispatches on the task
\* type (RequestSpec).

\* execute_task calls made on the agent in one behaviour
MaxTasks == 3

\* the variables of the workflow engine
engine_vars == << instantiated, instances, uuid_count, agent_registry, workflow_templates,
                  active_workflows, run_vars, scheduled_tasks >>

\* AgentTask; of the payload only workflow_id is read by the handlers modelled
AgentTask(id, tt, wid) == [task_id |-> id, task_type |-> tt, workflow_id |-> wid]

\* AgentResult; an error message is the list of the pieces its f-string is made
\* of, << >> is None
AgentResult(ok, data, msg) == [success |-> ok, data |-> data, error_message |-> msg]

\* "piece in error_message"
Contains(msg, piece) == \E k \in 1..Len(msg) : msg[k] = piece

\* the result slot of a call that has not returned
NoAgentResult == AgentResult(FALSE, EmptyPayload, << >>)

\* get_supported_task_types of the agent of the base-agent tests
TestableTaskTypes == {"test_task", "mock_task", "error_task"}

\* get_supported_task_types of the workflow agent
SupportedTaskTypes ==
    {"execute_workflow", "create_workflow", "get_workflow_status", "cancel_workflow"}

\* the tasks of the base-agent tests
TestTasks ==
    { AgentTask("test_task_1", "test_task", ""),
      AgentTask("unsupported_task", "unsupported_type", "") }

\* what the process_task of the tests returns: a success, or a failure of its own
MockResults ==
    { AgentResult(TRUE, [result |-> "success"], << >>),
      AgentResult(FALSE, EmptyPayload, << "no result" >>) }

\* the status and cancel requests of the workflow-agent tests, for the workflow
\* that was run and for one that never was, and the task of an invalid type
WorkflowTasks ==
    { AgentTask("status_test", "get_workflow_status", wid) : wid \in {"pair", "nonexistent"} }
    \cup
    { AgentTask("cancel_test", "cancel_workflow", wid) : wid \in {"pair", "nonexistent"} }
    \cup
    { AgentTask("invalid_test", "invalid_task_type", "") }

\* f"Error processing task {task.task_id}: {str(e)}"
ErrorProcessing(task, e) == << "Error processing task ", task.task_id, ": " >> \o e

\* str(ValueError(f"Unsupported task type: {task.task_type}"))
UnsupportedTaskType(task) == << "Unsupported task type: ", task.task_type >>

\* f"Task {task.task_id} timed out after {task.timeout}s"
TimedOut(task) == << "Task ", task.task_id, " timed out after ", "300", "s" >>

\* TaskFailure counting the failed task as a processed one
TaskFailureCountedProcessed(c, task, how, msg) ==
    /\ metrics' = [metrics EXCEPT !.tasks_processed = @ + 1]
    /\ agent_status' = "error"
    /\ calls' = [k \in 1..(IF c > Len(calls) THEN c ELSE Len(calls)) |->
                    IF k = c
                    THEN [task |-> task, pc |-> "returned", process_task |-> how,
                          result |-> AgentResult(FALSE, EmptyPayload, msg)]
                    ELSE calls[k]]

\* the except branches of execute_task: call c ends with a failure result, the
\* failure is counted and the agent is in status ERROR. (how tells how
\* process_task ended: not called, raised, timed out.)
TaskFailure(c, task, how, msg) ==
    /\ metrics' = [metrics EXCEPT !.tasks_failed = @ + 1]
    /\ agent_status' = "error"
    /\ calls' = [k \in 1..(IF c > Len(calls) THEN c ELSE Len(calls)) |->
                    IF k = c
                    THEN [task |-> task, pc |-> "returned", process_task |-> how,
                          result |-> AgentResult(FALSE, EmptyPayload, msg)]
                    ELSE calls[k]]

\* execute_task after process_task returned: the task is counted as processed,
\* the agent is IDLE and the result of process_task is returned
TaskProcessed(c, result) ==
    /\ metrics' = [metrics EXCEPT !.tasks_processed = @ + 1]
    /\ agent_status' = "idle"
    /\ calls' = [calls EXCEPT ![c] = [@ EXCEPT !.pc = "returned", !.result = result,
                                               !.process_task = "returned"]]

\* execute_task up to its await: the agent is PROCESSING; a task type that is
\* not supported raises ValueError inside the try, which the except branch turns
\* into a failure at once; otherwise process_task is awaited
ExecuteTask(task, supported) ==
    /\ Len(calls) < MaxTasks
    /\ IF task.task_type \notin supported
       THEN TaskFailure(Len(calls) + 1, task, "not called",
                        ErrorProcessing(task, UnsupportedTaskType(task)))
       ELSE /\ agent_status' = "processing"
            /\ calls' = Append(calls, [task |-> task, pc |-> "process",
                                       process_task |-> "awaited",
                                       result |-> NoAgentResult])
            /\ UNCHANGED metrics
    /\ UNCHANGED << shutdown, engine_vars >>

\* process_task of the tests returned a result
TaskReturns(c, result) ==
    /\ c \in 1..Len(calls)
    /\ calls[c].pc = "process"
    /\ TaskProcessed(c, result)
    /\ UNCHANGED << shutdown, engine_vars >>

\* process_task of the tests raised Exception("Test error")
TaskRaises(c) ==
    /\ c \in 1..Len(calls)
    /\ calls[c].pc = "process"
    /\ TaskFailure(c, calls[c].task, "raised",
                   ErrorProcessing(calls[c].task, << "Test error" >>))
    /\ UNCHANGED << shutdown, engine_vars >>

\* asyncio.wait_for gave up process_task after task.timeout seconds
TaskTimesOut(c) ==
    /\ c \in 1..Len(calls)
    /\ calls[c].pc = "process"
    /\ TaskFailure(c, calls[c].task, "timed out", TimedOut(calls[c].task))
    /\ UNCHANGED << shutdown, engine_vars >>

\* shutdown up to its await: the agent is in MAINTENANCE. (open remembers the
\* calls that were being processed at this moment.)
Shutdown ==
    /\ shutdown.pc = "idle"
    /\ agent_status' = "maintenance"
    /\ shutdown' = [pc |-> "waiting",
                    open |-> { c \in 1..Len(calls) : calls[c].pc = "process" },
                    timed_out |-> FALSE]
    /\ UNCHANGED << metrics, calls, engine_vars >>

\* _wait_for_idle, one test of its loop: it sleeps 0.1 s while the status is
\* PROCESSING, otherwise it returns and shutdown with it. (asyncio.wait_for runs
\* it at once or as a task of its own, depending on the Python version: other
\* coroutines may run before the first test.)
WaitForIdle ==
    /\ shutdown.pc = "waiting"
    /\ shutdown' = [shutdown EXCEPT !.pc = IF agent_status = "processing"
                                           THEN "sleeping" ELSE "returned"]
    /\ UNCHANGED << agent_status, metrics, calls, engine_vars >>

\* the 0.1 s sleep of _wait_for_idle is over
SleepOver ==
    /\ shutdown.pc = "sleeping"
    /\ shutdown' = [shutdown EXCEPT !.pc = "waiting"]
    /\ UNCHANGED << agent_status, metrics, calls, engine_vars >>

\* the 30 seconds of the wait are over: shutdown returns without the agent idle
ShutdownTimeout ==
    /\ shutdown.pc = "sleeping"
    /\ shutdown' = [shutdown EXCEPT !.pc = "returned", !.timed_out = TRUE]
    /\ UNCHANGED << agent_status, metrics, calls, engine_vars >>

AgentNext ==
    \/ \E task \in TestTasks : ExecuteTask(task, TestableTaskTypes)
    \/ \E c \in 1..Len(calls) : \E result \in MockResults : TaskReturns(c, result)
    \/ \E c \in 1..Len(calls) : TaskRaises(c)
    \/ \E c \in 1..Len(calls) : TaskTimesOut(c)
    \/ Shutdown
    \/ WaitForIdle
    \/ SleepOver
    \/ ShutdownTimeout

AgentSpec == Init /\ [][AgentNext]_vars

\* ------------------------------------------- the workflow agent's requests
\* f"Workflow {workflow_id} not found"
NotFound(wid) == << "Workflow ", wid, " not found" >>

\* _get_workflow_status: the status and the steps of a registered workflow
GetWorkflowStatus(wid) ==
    IF wid \in active_workflows
    THEN AgentResult(TRUE,
                     [workflow_id |-> wid, status |-> wf_status,
                      steps |-> [i \in Positions(steps) |->
                                    [step_id |-> steps[i].step_id,
                                     status |-> step_status[i],
                                     started_at |-> step_started_at[i],
                                     completed_at |-> step_completed_at[i]]]],
                     << >>)
    ELSE AgentResult(FALSE, EmptyPayload, NotFound(wid))

\* CancelledStatus cancelling whether the id is registered or not
CancelledStatusAnyId(wid) == "cancelled"

\* _cancel_workflow, the status it leaves: CANCELLED for a registered workflow
CancelledStatus(wid) ==
    IF wid \in active_workflows THEN "cancelled" ELSE wf_status

\* _cancel_workflow, the result it returns
CancelWorkflowResult(wid) ==
    IF wid \in active_workflows
    THEN AgentResult(TRUE, [workflow_id |-> wid, status |-> "cancelled"], << >>)
    ELSE AgentResult(FALSE, EmptyPayload, NotFound(wid))

\* str(ValueError(f"Unknown task type: {task.task_type}"))
UnknownTaskType(task) == << "Unknown task type: ", task.task_type >>

\* process_task of the workflow agent for the requests that end without an
\* await, and execute_task after it: the handler runs, its result is returned.
\* (execute_workflow and create_workflow are the actions ExecuteWorkflow and
\* CreateWorkflow, which start at process_task.)
ProcessTask(c) ==
    /\ c \in 1..Len(calls)
    /\ calls[c].pc = "process"
    /\ LET task == calls[c].task IN
       IF task.task_type = "get_workflow_status"
       THEN /\ TaskProcessed(c, GetWorkflowStatus(task.workflow_id))
            /\ UNCHANGED wf_status
       ELSE IF task.task_type = "cancel_workflow"
       THEN /\ TaskProcessed(c, CancelWorkflowResult(task.workflow_id))
            /\ wf_status' = CancelledStatus(task.workflow_id)
       ELSE /\ TaskProcessed(c, AgentResult(FALSE, EmptyPayload, UnknownTaskType(task)))
            /\ UNCHANGED wf_status
    /\ UNCHANGED << scheduled_tasks, step_objects, shutdown, instantiated, instances, uuid_count, agent_registry,
                    workflow_templates, active_workflows, request, wf_id, steps,
                    step_status, step_started_at,
                    step_completed_at, step_result, completed_steps, ready_steps, pc,
                    run_result, task_pc, task_result, attempt, invocations, first_ok,
                    sleep_log, last_error, launch_pass, passes, now >>

\* the requests arrive while the pair of the tests is run
RequestNext ==
    \/ ExecuteWorkflow(Payload("", "pair", PairSteps(1)))
    \/ ProcessResults
    \/ \E i \in Positions(steps) : StartStep(i)
    \/ \E i \in Positions(steps) : WorkerSucceeds(i)
    \/ \E i \in Positions(steps) : WorkerFails(i)
    \/ \E task \in WorkflowTasks : ExecuteTask(task, SupportedTaskTypes)
    \/ \E c \in 1..Len(calls) : ProcessTask(c)

RequestSpec == Init /\ [][RequestNext]_vars

\* ------------------------------------------------ the orchestrator's facade
\* _execute_workflow, its return: the result dict of _run_workflow wrapped in an
\* AgentResult whose success is that of the run; error_message is left None
ExecuteWorkflowResult == AgentResult(run_result.success, run_result, << >>)

\* AgentOrchestrator.execute_workflow, its return statement
\* "result.data if result.success else {success: False, error: result.error_message}"
OrchestratorExecuteWorkflow(result) ==
    IF result.success
    THEN result.data
    ELSE [success |-> FALSE, error |-> result.error_message]

\* ------------------------------------------------------ the scheduling agent
\* SchedulingAgent: schedule_task and cancel_task, the scheduler loop and the
\* coroutine _execute_scheduled_task it creates for a task that is due.

\* max_executions of the tasks scheduled here
MaxExecutions == 2

\* the agents AgentOrchestrator._initialize_agents registers with the scheduling agent
SchedulingRegistry == {"email_classifier", "notification_agent", "task_automation"}

\* the task_data of schedule_task: a one-time task and an interval task, for a
\* registered target agent and for one that is not registered
TaskData ==
    [task_id : {"task1"},
     schedule_type : {"one_time", "interval"},
     target_agent : {"notification_agent", "summary_agent"},
     retry_count : 1..MaxRetryCount,
     max_executions : {MaxExecutions}]

\* the other fields of the agent's modules stay as they are
other_vars == << instantiated, instances, uuid_count, agent_registry, workflow_templates,
                 active_workflows, run_vars, agent_status, metrics, calls, shutdown >>

\* _schedule_task: a ScheduledTask with status SCHEDULED and a next_execution in
\* the future (due: next_execution <= now) is stored under its id. (run is the
\* position of the coroutine _execute_scheduled_task of the task; cancelled
\* remembers that cancel_task has succeeded for it.)
ScheduleTask(data) ==
    /\ data.task_id \notin DOMAIN scheduled_tasks
    /\ scheduled_tasks' =
          [id \in DOMAIN scheduled_tasks \cup {data.task_id} |->
              IF id = data.task_id
              THEN [schedule_type |-> data.schedule_type,
                    target_agent |-> data.target_agent,
                    retry_count |-> data.retry_count,
                    max_executions |-> data.max_executions,
                    status |-> "scheduled", due |-> FALSE,
                    execution_count |-> 0, current_retries |-> 0,
                    run |-> "none", cancelled |-> FALSE]
              ELSE scheduled_tasks[id]]
    /\ UNCHANGED other_vars

\* time passes: the next_execution of the task is reached
NextExecutionReached(id) ==
    /\ id \in DOMAIN scheduled_tasks
    /\ ~scheduled_tasks[id].due
    /\ scheduled_tasks' = [scheduled_tasks EXCEPT ![id].due = TRUE]
    /\ UNCHANGED other_vars

\* "task.status == SCHEDULED and task.next_execution <= now", and the task has
\* executions left
ReadyTask(task) ==
    /\ task.status = "scheduled"
    /\ task.due
    /\ task.execution_count < task.max_executions

\* _scheduler_loop, one pass: a coroutine is created for every ready task. (The
\* coroutines of the pass before have started by now: the loop sleeps 10 s.)
SchedulerLoop ==
    /\ \E id \in DOMAIN scheduled_tasks : ReadyTask(scheduled_tasks[id])
    /\ \A id \in DOMAIN scheduled_tasks : scheduled_tasks[id].run # "created"
    /\ scheduled_tasks' =
          [id \in DOMAIN scheduled_tasks |->
              IF ReadyTask(scheduled_tasks[id])
              THEN [scheduled_tasks[id] EXCEPT !.run = "created"]
              ELSE scheduled_tasks[id]]
    /\ UNCHANGED other_vars

\* _handle_task_failure: a retry is scheduled while retries are left, otherwise
\* the task is FAILED
HandleTaskFailure(task) ==
    IF task.current_retries + 1 < task.retry_count
    THEN [task EXCEPT !.current_retries = @ + 1, !.status = "scheduled",
                      !.due = FALSE, !.run = "none"]
    ELSE [task EXCEPT !.current_retries = @ + 1, !.status = "failed", !.run = "none"]

\* _execute_scheduled_task up to its await: the task is RUNNING; without the
\* target agent the failure is handled at once, otherwise the agent is called
ExecutionStarts(id) ==
    /\ id \in DOMAIN scheduled_tasks
    /\ scheduled_tasks[id].run = "created"
    /\ LET task == [scheduled_tasks[id] EXCEPT !.status = "running"] IN
       scheduled_tasks' =
          [scheduled_tasks EXCEPT ![id] =
              IF task.target_agent \notin SchedulingRegistry
              THEN HandleTaskFailure(task)
              ELSE [task EXCEPT !.run = "call"]]
    /\ UNCHANGED other_vars

\* the agent returned a result with success: the execution is counted, a task
\* that is not one-time gets its next execution and is SCHEDULED again, a
\* one-time task is COMPLETED
ExecutionSucceeds(id) ==
    /\ id \in DOMAIN scheduled_tasks
    /\ scheduled_tasks[id].run = "call"
    /\ scheduled_tasks' =
          [scheduled_tasks EXCEPT ![id] =
              IF @.schedule_type # "one_time"
              THEN [@ EXCEPT !.execution_count = @ + 1, !.current_retries = 0,
                             !.status = "scheduled", !.due = FALSE, !.run = "none"]
              ELSE [@ EXCEPT !.execution_count = @ + 1, !.current_retries = 0,
                             !.status = "completed", !.run = "none"]]
    /\ UNCHANGED other_vars

\* the agent returned a result without success, or the call raised
ExecutionFails(id) ==
    /\ id \in DOMAIN scheduled_tasks
    /\ scheduled_tasks[id].run = "call"
    /\ scheduled_tasks' = [scheduled_tasks EXCEPT ![id] = HandleTaskFailure(@)]
    /\ UNCHANGED other_vars

\* _cancel_task for a stored task: its status is CANCELLED
CancelTask(id) ==
    /\ id \in DOMAIN scheduled_tasks
    /\ scheduled_tasks' = [scheduled_tasks EXCEPT ![id].status = "cancelled",
                                                  ![id].cancelled = TRUE]
    /\ UNCHANGED other_vars

SchedulerNext ==
    \/ \E data \in TaskData : ScheduleTask(data)
    \/ \E id \in DOMAIN scheduled_tasks : NextExecutionReached(id)
    \/ SchedulerLoop
    \/ \E id \in DOMAIN scheduled_tasks : ExecutionStarts(id)
    \/ \E id \in DOMAIN scheduled_tasks : ExecutionSucceeds(id)
    \/ \E id \in DOMAIN scheduled_tasks : ExecutionFails(id)
    \/ \E id \in DOMAIN scheduled_tasks : CancelTask(id)

SchedulerSpec == Init /\ [][SchedulerNext]_vars

\* ================================================================== claims
Terminal == {"completed", "failed", "cancelled"}

Launched(i) == step_status[i] # "waiting"

\* position j holds a step that the dependencies of the step at position i name
DependsOn(stps, i, j) == stps[j].step_id \in stps[i].dependencies

\* the dependency graph of stps has a cycle (a self-dependency included): some
\* non-empty set of steps in which every step depends on a step of the set
HasCycle(stps) ==
    \E S \in SUBSET Positions(stps) :
        /\ S # {}
        /\ \A i \in S : \E j \in S : DependsOn(stps, i, j)

\* C1: a step is launched (leaves WAITING, started_at set) only when every step
\* its dependencies name is COMPLETED, so its started_at is never earlier than
\* the completed_at of any of its dependencies
TopologicalSoundness ==
    \A i \in Positions(steps) :
        Launched(i) =>
            /\ step_started_at[i] # NoTime
            /\ \A d \in steps[i].dependencies :
                  /\ \E j \in Positions(steps) : steps[j].step_id = d
                  /\ \A j \in Positions(steps) :
                        steps[j].step_id = d =>
                            /\ step_status[j] = "completed"
                            /\ step_completed_at[j] # NoTime
                            /\ step_completed_at[j] <= step_started_at[i]

\* a step with dependencies is running, launched later than its dependency completed
DependentLaunched ==
    \E i \in Positions(steps) : \E j \in Positions(steps) :
        /\ DependsOn(steps, i, j)
        /\ step_status[i] = "running"
        /\ step_completed_at[j] < step_started_at[i]

\* C2: every run that was started reaches the end of _run_workflow (a terminal
\* workflow status) when every worker invocation returns; the scheduler never
\* polls forever (a poll that finds nothing ready and nothing FAILED leaves the
\* state as it was, so polling forever shows as PollAgain repeated without change)
RunTerminates == (pc # "idle") ~> (pc = "done")

\* C3: if step B depends on step A and A is FAILED, B is still WAITING, its worker
\* was never invoked, and the run ends with status FAILED
FailurePropagation ==
    \A a \in Positions(steps) : \A b \in Positions(steps) :
        (DependsOn(steps, b, a) /\ step_status[a] = "failed") =>
            /\ step_status[b] = "waiting"
            /\ task_pc[b] = "none"
            /\ invocations[b] = 0
            /\ (pc = "done" => run_result.status = "failed" /\ ~run_result.success)

\* a run has ended with a FAILED step that another step depends on
DependencyFailedAtEnd ==
    \E a \in Positions(steps) : \E b \in Positions(steps) :
        /\ a # b
        /\ DependsOn(steps, b, a)
        /\ step_status[a] = "failed"
        /\ pc = "done"

\* C4: once the workflow is CANCELLED no WAITING step is launched any more
NoLaunchAfterCancel ==
    [][(wf_status = "cancelled") =>
          (\A i \in Positions(steps) :
              (step_status[i] = "waiting") => (step_status'[i] = "waiting"))]_vars

\* C5: a workflow status that is COMPLETED, FAILED or CANCELLED never changes
TerminalStatusIsFinal ==
    [][(wf_status \in Terminal) => (wf_status' = wf_status)]_vars

\* C6: a step with a registered worker gets at most retry_count invocations:
\* exactly k when attempt k is the first to succeed (the step is COMPLETED), and
\* exactly retry_count when none succeeds (the step is FAILED, the run FAILED)
RetryBound ==
    \A i \in Positions(steps) :
        steps[i].agent_name \in agent_registry =>
            /\ invocations[i] <= steps[i].retry_count
            /\ task_pc[i] = "returned" =>
                  IF first_ok[i] # 0
                  THEN invocations[i] = first_ok[i] /\ task_result[i] = "success"
                  ELSE invocations[i] = steps[i].retry_count
                       /\ task_result[i] = "retries_exhausted"
            /\ step_status[i] = "completed" => first_ok[i] # 0
            /\ step_status[i] = "failed" =>
                  /\ first_ok[i] = 0
                  /\ invocations[i] = steps[i].retry_count
                  /\ (pc = "done" => run_result.status = "failed")

\* a step failed after the three attempts of the default retry_count, and another
\* step completed on a second attempt
RetriesExhaustedAndRetrySucceeded ==
    /\ \E i \in Positions(steps) :
          /\ step_status[i] = "failed"
          /\ invocations[i] = DefaultRetryCount
          /\ pc = "done"
    /\ \E i \in Positions(steps) :
          /\ step_status[i] = "completed"
          /\ invocations[i] = 2

\* C7: the workflow status is COMPLETED only if every step is COMPLETED or
\* SKIPPED, and once a run has ended with every step COMPLETED or SKIPPED the
\* workflow status is COMPLETED and the result reports success
CompletedIffAllStepsCompleted ==
    LET allDone == \A i \in Positions(steps) : step_status[i] \in {"completed", "skipped"}
    IN  /\ wf_status = "completed" => allDone
        /\ (pc = "done" /\ run_result.status = "completed") => allDone
        /\ (pc = "done" /\ allDone) =>
              /\ wf_status = "completed"
              /\ run_result.success

\* C8: no definition with a dependency cycle is stored as a template or is run
\* by the scheduler
NoCyclicDefinitionAccepted ==
    /\ \A t \in DOMAIN workflow_templates : ~HasCycle(workflow_templates[t])
    /\ pc # "idle" => ~HasCycle(steps)

\* C9: the steps that are RUNNING belong to the batch of the current pass, and a
\* step's outcome is applied only when every step of its batch was launched and
\* has returned: while a batch is awaited none of its steps is COMPLETED or FAILED
BatchBarrier ==
    /\ \A i \in Positions(steps) :
          step_status[i] = "running" =>
              /\ pc = "gather"
              /\ InSeq(i, ready_steps)
              /\ launch_pass[i] = passes
    /\ \A i \in Positions(steps) :
          step_status[i] \in {"completed", "failed"} =>
              /\ task_pc[i] = "returned"
              /\ launch_pass[i] > 0
              /\ \A j \in Positions(steps) :
                    launch_pass[j] = launch_pass[i] => task_pc[j] = "returned"
    /\ \A i \in Positions(steps) :
          (task_pc[i] \in {"scheduled", "call", "backoff"}) =>
              /\ pc = "gather"
              /\ InSeq(i, ready_steps)
    /\ pc = "gather" =>
          \A k \in 1..Len(ready_steps) :
              step_status[ready_steps[k]] \in {"waiting", "running"}

\* in the second pass one step of the batch has returned while its sibling is
\* still running
SiblingStillRunning ==
    /\ passes = 2
    /\ \E i \in Positions(steps) : \E j \in Positions(steps) :
          /\ i # j
          /\ step_status[i] = "running" /\ task_pc[i] = "returned"
          /\ step_status[j] = "running" /\ task_pc[j] = "call"

\* C10: a step whose agent is not registered is FAILED with the agent-not-found
\* result, without any invocation or backoff sleep, and the run ends FAILED
UnknownWorkerFails ==
    \A i \in Positions(steps) :
        steps[i].agent_name \notin agent_registry =>
            /\ invocations[i] = 0
            /\ sleep_log[i] = << >>
            /\ task_pc[i] \in {"none", "scheduled", "returned"}
            /\ task_pc[i] = "returned" => task_result[i] = "agent_not_found"
            /\ Launched(i) => task_pc[i] = "returned"
            /\ step_status[i] \in {"waiting", "running", "failed"}
            /\ step_status[i] = "failed" => step_result[i] = "agent_not_found"
            /\ (pc = "done" /\ Launched(i)) =>
                  /\ step_status[i] = "failed"
                  /\ run_result.status = "failed"

\* a run has ended in which a step with an unregistered agent was launched
UnknownWorkerRunEnded ==
    \E i \in Positions(steps) :
        /\ steps[i].agent_name \notin agent_registry
        /\ step_status[i] = "failed"
        /\ pc = "done"

\* every step that was launched has a registered worker that reported success
AllWorkersSucceeded ==
    \A i \in Positions(steps) :
        /\ AgentFound(i)
        /\ Launched(i) => first_ok[i] # 0

\* C11: when a run of an acyclic workflow has ended and every step's worker is
\* registered and succeeded, the run reports COMPLETED with success, every step is
\* COMPLETED, and along every dependency (so along a chain A, B, C) the events are
\* ordered: dependency.completed_at <= step.started_at <= step.completed_at
CompletesWhenWorkersSucceed ==
    (pc = "done" /\ ~HasCycle(steps) /\ AllWorkersSucceeded) =>
        /\ run_result.status = "completed"
        /\ run_result.success
        /\ \A i \in Positions(steps) :
              /\ step_status[i] = "completed"
              /\ step_started_at[i] # NoTime
              /\ step_started_at[i] <= step_completed_at[i]
              /\ \A j \in Positions(steps) :
                    DependsOn(steps, i, j) =>
                        /\ step_completed_at[j] # NoTime
                        /\ step_completed_at[j] <= step_started_at[i]

\* the run of the chain A, B, C has ended after every worker succeeded, and time
\* passed between the completion of A and the start of C
ChainCompleted ==
    /\ pc = "done"
    /\ wf_id = "chain"
    /\ AllWorkersSucceeded
    /\ step_completed_at[1] < step_started_at[3]

\* the workflow of the run is the diamond: A; B and C on A; D on B and C
IsDiamond == \E rc \in 0..MaxRetryCount : steps = DiamondSteps(rc)

\* C12: the diamond is run in at most three launching passes: A in the first, B and
\* C together in the second, D in the third; when every worker succeeded the
\* ended run took exactly these three passes and reports COMPLETED
DiamondInThreePasses ==
    (pc # "idle" /\ IsDiamond) =>
        /\ passes <= 3
        /\ launch_pass[1] \in {0, 1}
        /\ launch_pass[2] \in {0, 2}
        /\ launch_pass[3] \in {0, 2}
        /\ launch_pass[4] \in {0, 3}
        /\ (Launched(2) \/ Launched(3)) =>
              (InSeq(2, ready_steps) <=> InSeq(3, ready_steps))
        /\ (pc = "done" /\ AllWorkersSucceeded) =>
              /\ passes = 3
              /\ launch_pass = << 1, 2, 2, 3 >>
              /\ run_result.status = "completed"
              /\ run_result.success

\* the run of the diamond has ended after every worker succeeded
DiamondCompleted ==
    /\ pc = "done"
    /\ IsDiamond
    /\ AllWorkersSucceeded
    /\ passes = 3

\* the worker of step i has been called and has not replied yet
WorkerDelays(i) == task_pc[i] \in {"call", "backoff"}

\* C13: the steps of one batch (no one depends on another) run concurrently: a step
\* of the batch starts while the workers of the steps before it still delay, and a
\* step whose worker delays stays RUNNING, so two of them are RUNNING at once
BatchRunsConcurrently ==
    pc = "gather" =>
        \A k \in 1..Len(ready_steps) :
            LET i == ready_steps[k] IN
            /\ \A l \in 1..Len(ready_steps) : ~DependsOn(steps, i, ready_steps[l])
            /\ WorkerDelays(i) => step_status[i] = "running"
            /\ (task_pc[i] = "scheduled"
                   /\ \A j \in 1..(k - 1) : task_pc[ready_steps[j]] # "scheduled")
                  => ENABLED StartStep(i)

\* two steps of one batch are RUNNING while the workers of both delay
TwoRunningAtOnce ==
    \E i \in Positions(steps) : \E j \in Positions(steps) :
        /\ i # j
        /\ step_status[i] = "running" /\ task_pc[i] = "call"
        /\ step_status[j] = "running" /\ task_pc[j] = "call"
        /\ ~DependsOn(steps, i, j) /\ ~DependsOn(steps, j, i)

\* the results with which a step coroutine reports a failure
FailureResults == {"agent_not_found", "retries_exhausted"}

AttemptEndsWith(i, err) ==
    /\ task_pc[i] = "call"
    /\ last_error'[i] = err
    /\ task_pc'[i] # "call" \/ attempt'[i] # attempt[i]

\* what the retry loop does after a failed attempt of step i: with an attempt left
\* it sleeps 2 ** attempt seconds and makes no call yet, else the coroutine
\* returns the failure after retry_count calls
FailedAttemptHandled(i) ==
    /\ invocations[i] = attempt[i] + 1
    /\ step_status'[i] = "running"
    /\ IF attempt[i] + 1 < steps[i].retry_count
       THEN /\ task_pc'[i] = "backoff"
            /\ sleep_log'[i] = Append(sleep_log[i], Pow2(attempt[i]))
            /\ attempt'[i] = attempt[i]
            /\ invocations'[i] = invocations[i]
            /\ task_result'[i] = "none"
       ELSE /\ task_pc'[i] = "returned"
            /\ task_result'[i] = "retries_exhausted"
            /\ invocations'[i] = steps[i].retry_count
            /\ sleep_log'[i] = sleep_log[i]

\* C16: the timeout ends one call, not the retry sequence: a call that timed out
\* is a call that returned a result without success (nothing is raised), it is one
\* attempt of the retry loop and is followed by the same backoff and retry, or the
\* same final failure, as a failure the worker reports
TimeoutIsAFailedAttempt ==
    [][\A i \in Positions(steps) :
          /\ AttemptEndsWith(i, TimeoutResult.error_message) =>
                (~TimeoutResult.success /\ FailedAttemptHandled(i))
          /\ AttemptEndsWith(i, "reported") => FailedAttemptHandled(i)]_vars

\* a call timed out, and the retry that followed the backoff is in flight
RetryAfterTimeout ==
    \E i \in Positions(steps) :
        /\ last_error[i] = "timed_out"
        /\ task_pc[i] = "call"
        /\ invocations[i] = 2
        /\ sleep_log[i] = << 1 >>

\* C17: when the attempts of a step are exhausted, the result its coroutine
\* returns (the one recorded on the step) carries the number of attempts made
\* and the error of the last failed attempt
LastErrorRecorded ==
    \A i \in Positions(steps) :
        (task_pc[i] = "returned" /\ task_result[i] = "retries_exhausted"
            /\ last_error[i] # "none") =>
            /\ ExhaustedMessage(i).attempts = invocations[i]
            /\ "error" \in DOMAIN ExhaustedMessage(i)
            /\ ExhaustedMessage(i).error = last_error[i]

\* C18: the sleep after failed attempt number a (from 1) lasts 2 ^ (a - 1) seconds
\* (1, 2, 4, ...), every failed attempt but the last one of the step is followed
\* by one sleep, and no sleep follows the last attempt or a successful attempt;
\* this is so for reported failures, timeouts and exceptions alike
ExponentialBackoff ==
    \A i \in Positions(steps) :
        /\ \A a \in 1..Len(sleep_log[i]) :
              /\ a < steps[i].retry_count
              /\ sleep_log[i][a] = Pow2(a - 1)
        /\ task_pc[i] = "call" => Len(sleep_log[i]) = invocations[i] - 1
        /\ task_pc[i] = "backoff" =>
              /\ Len(sleep_log[i]) = invocations[i]
              /\ invocations[i] < steps[i].retry_count
              /\ last_error[i] \in {"reported", "timed_out", "raised"}
        /\ (task_pc[i] = "returned" /\ task_result[i] = "success") =>
              Len(sleep_log[i]) = invocations[i] - 1
        /\ (task_pc[i] = "returned" /\ task_result[i] = "retries_exhausted"
               /\ steps[i].retry_count > 0) =>
              /\ invocations[i] = steps[i].retry_count
              /\ Len(sleep_log[i]) = steps[i].retry_count - 1
        /\ invocations[i] = 0 => sleep_log[i] = << >>

\* four attempts failed, the last by an exception: the sleeps were 1 s, 2 s and
\* 4 s, and none followed the fourth attempt
SleptOneTwoFour ==
    \E i \in Positions(steps) :
        /\ task_pc[i] = "returned"
        /\ task_result[i] = "retries_exhausted"
        /\ last_error[i] = "raised"
        /\ invocations[i] = 4
        /\ sleep_log[i] = << 1, 2, 4 >>

\* C19: a run requested with a template id that is not in the template store is
\* refused: no workflow is registered or run, and the result reports the failure
UnknownTemplateRefused ==
    (pc # "idle" /\ request.template_id # ""
        /\ request.template_id \notin DOMAIN workflow_templates) =>
        /\ wf_id \notin active_workflows
        /\ wf_status \notin {"running", "completed"}
        /\ pc = "done"
        /\ ~run_result.success
        /\ run_result.status # "completed"

\* C20: an execute_workflow request that names, by workflow_id only, a definition
\* that create_workflow has stored runs the steps of that stored definition
StoredDefinitionIsRun ==
    [][(pc = "idle" /\ pc' # "idle" /\ request'.template_id = ""
          /\ request'.steps = << >>
          /\ request'.workflow_id \in DOMAIN workflow_templates) =>
          (steps' = workflow_templates[request'.workflow_id])]_vars

\* the ids of the steps of a Workflow object
StepIds(r) == { r.steps[i].step_id : i \in Positions(r.steps) }

\* the step records of a run: what its scheduler reads and writes
StepRecords(r) == << r.step_status, r.completed_steps, r.ready_steps,
                     r.task_pc, r.task_result, r.attempt >>

\* C14: two workflows made from the same template have distinct workflow_ids,
\* both registered, and disjoint step ids (the dependencies of each name its own
\* steps); while both run, a step of the engine changes the step records of one
\* of them only, so no outcome in one changes a status or the readiness of a step
\* in the other
InstancesIndependent ==
    [][/\ (instances'[1].pc # "none" /\ instances'[2].pc # "none") =>
            /\ instances'[1].template_id = instances'[2].template_id
            /\ instances'[1].workflow_id # instances'[2].workflow_id
            /\ {instances'[1].workflow_id, instances'[2].workflow_id} \subseteq active_workflows'
            /\ StepIds(instances'[1]) \cap StepIds(instances'[2]) = {}
            /\ \A w \in Slots : \A i \in Positions(instances'[w].steps) :
                  instances'[w].steps[i].dependencies \subseteq StepIds(instances'[w])
       /\ \A w \in Slots :
            (StepRecords(instances'[w]) # StepRecords(instances[w])) =>
                /\ instances'[3 - w] = instances[3 - w]
                /\ \A i \in Positions(instances[3 - w].steps) :
                      IsReady(instances'[3 - w].steps, instances'[3 - w].step_status,
                              instances'[3 - w].completed_steps, i)
                      <=> IsReady(instances[3 - w].steps, instances[3 - w].step_status,
                                  instances[3 - w].completed_steps, i)]_vars

\* both instances run at once; a step has FAILED in the first while the same
\* step of the template is COMPLETED in the second
TwinsDiverge ==
    /\ instances[1].pc = "gather"
    /\ instances[2].pc = "gather"
    /\ \E i \in Positions(instances[1].steps) :
          /\ instances[1].step_status[i] = "running"
          /\ instances[1].task_result[i] = "retries_exhausted"
          /\ instances[2].step_status[i] = "completed"

\* C21: an instance made from a template has, step by step, the id
\* "{workflow_id}_{template step id}", the dependencies of the template step with
\* the same prefix (so instance step i depends on instance step j exactly when
\* template step i depends on template step j), the agent name, task type,
\* retry_count and timeout of the template step, status WAITING and no result
InstantiationCopiesSteps ==
    LET T == instantiated.template
        S == instantiated.steps
        wid == instantiated.workflow_id
    IN  /\ Len(S) = Len(T)
        /\ \A i \in Positions(T) :
              /\ S[i].step_id = wid \o "_" \o T[i].step_id
              /\ S[i].dependencies = { wid \o "_" \o d : d \in T[i].dependencies }
              /\ \A j \in Positions(T) : DependsOn(S, i, j) <=> DependsOn(T, i, j)
              /\ S[i].agent_name = T[i].agent_name
              /\ S[i].task_type = T[i].task_type
              /\ S[i].retry_count = T[i].retry_count
              /\ S[i].timeout = T[i].timeout
              /\ instantiated.step_status[i] = "waiting"
              /\ instantiated.step_result[i] = "none"

\* the stored definition with three steps and dependencies has been instantiated
DependenciesInstantiated ==
    /\ instantiated.template = DependencySteps
    /\ instantiated.workflow_id = "uuid2"
    /\ instantiated.steps[3].dependencies = {"uuid2_step1", "uuid2_step2"}

\* C22: every step payload of an instance holds every key of the input data with
\* the value of the input data, and every other key of the template step's payload
\* with the template's value, and no other key
PayloadMerged ==
    \A i \in Positions(instantiated.template) :
        LET pl == instantiated.steps[i].payload
            tp == instantiated.template[i].payload
            data == instantiated.data
        IN  /\ DOMAIN pl = DOMAIN tp \cup DOMAIN data
            /\ \A k \in DOMAIN data : pl[k] = data[k]
            /\ \A k \in DOMAIN tp \ DOMAIN data : pl[k] = tp[k]

\* an instance whose input data and template payload both define the key "step",
\* with different values, and whose input data brings one more key
PayloadKeyCollision ==
    /\ instantiated.template = DependencySteps
    /\ DOMAIN instantiated.data = {"step", "email_id"}
    /\ instantiated.data["step"] = "9"
    /\ instantiated.steps[2].payload["step"] = "9"
    /\ instantiated.template[2].payload["step"] = "2"

\* the longest step list of the model
LongestWorkflow == Len(NewEmailProcessing)

\* the outcome of step i is recorded on its step record
OutcomeRecorded(i) ==
    /\ step_status[i] \in {"completed", "failed"}
    /\ step_result[i] = task_result[i]
    /\ step_result[i] # "none"
    /\ step_completed_at[i] # NoTime
    /\ step_status[i] = "completed" <=> step_result[i] = "success"

\* C23: a step that is RUNNING while the workflow is CANCELLED is not interrupted:
\* when every worker invocation returns, the step becomes COMPLETED or FAILED and
\* its outcome is recorded on its own step record
RunningStepsFinishAfterCancel ==
    \A i \in 1..LongestWorkflow :
        (i \in Positions(steps) /\ wf_status = "cancelled" /\ step_status[i] = "running")
            ~> (i \in Positions(steps) /\ OutcomeRecorded(i))

\* the workflow is CANCELLED while two steps of a batch are RUNNING, one of them
\* sleeping between two attempts
CancelledWhileRunning ==
    /\ wf_status = "cancelled"
    /\ pc = "gather"
    /\ \E i \in Positions(steps) : \E j \in Positions(steps) :
          /\ step_status[i] = "running" /\ task_pc[i] = "backoff"
          /\ step_status[j] = "running" /\ task_pc[j] = "call"

Returning(c) ==
    /\ c \in 1..Len(calls')
    /\ calls'[c].pc = "returned"
    /\ c \in 1..Len(calls) => calls[c].pc = "process"

\* C25: get_workflow_status and cancel_workflow for a workflow id that is not in
\* the registry return a failure saying "not found" and change no state: the
\* registry, the templates and every workflow's status and steps stay as they are.
NotFoundChangesNothing ==
    [][\A c \in 1..MaxTasks :
          (/\ Returning(c)
           /\ calls'[c].task.task_type \in {"get_workflow_status", "cancel_workflow"}
           /\ calls'[c].task.workflow_id \notin active_workflows)
          => (/\ ~calls'[c].result.success
              /\ Contains(calls'[c].result.error_message, " not found")
              /\ UNCHANGED engine_vars)]_vars

NotFoundDuringRun ==
    /\ wf_status = "running"
    /\ active_workflows = {"pair"}
    /\ \E c \in 1..Len(calls) :
          /\ calls[c].task = AgentTask("cancel_test", "cancel_workflow", "nonexistent")
          /\ calls[c].pc = "returned"
          /\ ~calls[c].result.success
    /\ \E c \in 1..Len(calls) :
          /\ calls[c].task = AgentTask("status_test", "get_workflow_status", "pair")
          /\ calls[c].result.error_message = NotFound("pair")

\* C26: execute_task of the workflow agent with a task type that is none of the
\* four supported ones returns success=False with a message containing
\* "Unknown task type" and changes no workflow, template or registry state.
InvalidTypeReportedUnknown ==
    [][\A c \in 1..MaxTasks :
          (/\ Returning(c)
           /\ calls'[c].task.task_type \notin SupportedTaskTypes)
          => (/\ ~calls'[c].result.success
              /\ Contains(calls'[c].result.error_message, "Unknown task type: ")
              /\ UNCHANGED engine_vars)]_vars

\* C27: execute_task never raises. A call whose task type is unsupported or
\* whose process_task raises returns success=False with the error text in
\* error_message, adds exactly one to tasks_failed, leaves tasks_processed as it
\* is and leaves the agent in status ERROR; a call whose process_task returns
\* adds exactly one to tasks_processed, leaves tasks_failed as it is and leaves
\* the agent IDLE.
ExecuteTaskCountsOnce ==
    [][\A c \in 1..MaxTasks :
          Returning(c) =>
              LET call == calls'[c] IN
              /\ call.process_task \in {"not called", "raised", "timed out", "returned"}
              /\ call.process_task \in {"not called", "raised"} =>
                    /\ ~call.result.success
                    /\ \/ Contains(call.result.error_message, "Unsupported task type: ")
                       \/ Contains(call.result.error_message, "Test error")
                    /\ metrics'.tasks_failed = metrics.tasks_failed + 1
                    /\ metrics'.tasks_processed = metrics.tasks_processed
                    /\ agent_status' = "error"
              /\ call.process_task = "returned" =>
                    /\ call.result \in MockResults
                    /\ metrics'.tasks_processed = metrics.tasks_processed + 1
                    /\ metrics'.tasks_failed = metrics.tasks_failed
                    /\ agent_status' = "idle"]_vars

ProcessedOneFailedTwo ==
    /\ Len(calls) = 3
    /\ calls[1].process_task = "raised"
    /\ calls[2].process_task = "not called"
    /\ calls[3].process_task = "returned" /\ calls[3].result.success
    /\ metrics = [tasks_processed |-> 1, tasks_failed |-> 2]
    /\ agent_status = "idle"

\* C28: shutdown sets the status to MAINTENANCE and returns only after every task
\* that was being processed when it was called has finished, or after the 30
\* seconds; when it returns the status is MAINTENANCE.
ShutdownWaitsForTasks ==
    [][(shutdown.pc # "returned" /\ shutdown'.pc = "returned")
          => (/\ \/ shutdown'.timed_out
                 \/ \A c \in shutdown'.open : calls'[c].pc = "returned"
              /\ agent_status' = "maintenance")]_vars

\* the ids of the steps that are COMPLETED
CompletedIds(stps, st) == { stps[i].step_id : i \in { j \in Positions(stps) : st[j] = "completed" } }

\* C29: a FAILED step does not stop the scheduling of the steps that do not
\* depend on it. Every pass launches all the WAITING steps whose dependencies are
\* all COMPLETED, whether or not a step has failed, and the run ends only on a
\* pass that finds none: when it ends no step is RUNNING and every step that is
\* still WAITING has a dependency that is not COMPLETED.
FailureStopsNothingReady ==
    [][/\ (pc' = "gather" /\ (pc # "gather" \/ passes' # passes)) =>
              \A i \in Positions(steps') :
                  InSeq(i, ready_steps') <=>
                      /\ step_status'[i] = "waiting"
                      /\ steps'[i].dependencies \subseteq CompletedIds(steps', step_status')
       /\ (pc' = "done" /\ pc # "done") =>
              /\ wf_status' \in {"completed", "failed"}
              /\ \A i \in Positions(steps') :
                    /\ step_status'[i] # "running"
                    /\ step_status'[i] = "waiting" =>
                          ~(steps'[i].dependencies \subseteq CompletedIds(steps', step_status'))]_vars

LaunchedAfterFailure ==
    /\ pc = "done"
    /\ wf_status = "failed"
    /\ \E i, j \in Positions(steps) :
          /\ step_status[i] = "failed"
          /\ step_status[j] = "completed"
          /\ launch_pass[j] > launch_pass[i]
          /\ steps[i].step_id \notin steps[j].dependencies

\* C30: the scheduler waits and polls again (nothing ready, no step FAILED, not
\* all steps finished) only while at least one step of the workflow is RUNNING,
\* so that a later poll can find the state changed.
RepollOnlyWhileRunning ==
    pc = "sleep" => \E i \in Positions(steps) : step_status[i] = "running"

\* C31: every step the engine runs has a retry limit of at least 1: a step that
\* was launched with a registered worker has had at least one worker invocation
\* when it is FAILED.
AtLeastOneAttempt ==
    \A i \in Positions(steps) :
        /\ steps[i].retry_count >= 1
        /\ (step_status[i] = "failed" /\ AgentFound(i)) => invocations[i] >= 1

\* C32: in every workflow handed to the scheduler the step ids are unique, so
\* the number of completed step ids the scheduler keeps is the number of
\* COMPLETED steps.
StepIdsUnique ==
    /\ \A i, j \in Positions(steps) : steps[i].step_id = steps[j].step_id => i = j
    /\ Cardinality(completed_steps)
          = Cardinality({ i \in Positions(steps) : step_status[i] = "completed" })

\* the step record at position i, and the state of the coroutine that executes it
StepRecord(i) == << step_status[i], step_started_at[i], step_completed_at[i], step_result[i] >>

Execution(i) == << task_pc[i], task_result[i], attempt[i], invocations[i] >>

\* the status changes a step can make
StatusMoves ==
    { << "waiting", "running" >>, << "running", "completed" >>, << "running", "failed" >> }

\* C33: within one run a step's status only moves WAITING to RUNNING to COMPLETED
\* or FAILED, so each step is launched at most once and a COMPLETED or FAILED step
\* never changes again and is never launched by a later pass; and a step of an
\* execution writes to the record of its own step only.
StepsMoveForwardOnly ==
    [][\A i \in Positions(steps) :
          /\ step_status'[i] # step_status[i]
                => << step_status[i], step_status'[i] >> \in StatusMoves
          /\ step_status[i] \in {"completed", "failed"}
                => /\ StepRecord(i)' = StepRecord(i)
                   /\ Execution(i)' = Execution(i)
                   /\ launch_pass'[i] = launch_pass[i]
          /\ (pc = "gather" /\ pc' = "gather" /\ passes' = passes
                /\ StepRecord(i)' # StepRecord(i))
                => /\ Execution(i)' # Execution(i)
                   /\ \A j \in Positions(steps) \ {i} :
                         StepRecord(j)' = StepRecord(j) /\ Execution(j)' = Execution(j)]_vars

SiblingsAtDifferentStages ==
    /\ pc = "gather"
    /\ passes = 2
    /\ \E i, j, k \in Positions(steps) :
          /\ step_status[i] = "completed"
          /\ step_status[j] = "running" /\ task_pc[j] = "returned"
          /\ step_status[k] = "running" /\ task_pc[k] = "call" /\ attempt[k] = 1

\* C34: for a workflow that ran and ended FAILED, AgentOrchestrator.execute_workflow
\* returns a result that still carries the workflow's status and the list of the
\* steps with their statuses.
FailedRunKeepsDetail ==
    (pc = "done" /\ run_result.status = "failed"
        /\ request.template_id \in DOMAIN workflow_templates)
        => LET reply == OrchestratorExecuteWorkflow(ExecuteWorkflowResult) IN
           /\ {"status", "steps"} \subseteq DOMAIN reply
           /\ reply.status = "failed"
           /\ reply.steps = StepsReport(steps, step_status)

\* a step object as a template holds it when nothing has run it
Pristine(step) ==
    [definition |-> step, status |-> "waiting", started_at |-> NoTime,
     completed_at |-> NoTime, result |-> "none"]

\* the step objects of the stored template t, as they are now: those the run
\* works on if the run holds the template's own objects
TemplateObjects(t) ==
    IF step_objects = t
    THEN [i \in Positions(steps) |->
            [definition |-> steps[i], status |-> step_status[i],
             started_at |-> step_started_at[i], completed_at |-> step_completed_at[i],
             result |-> step_result[i]]]
    ELSE [i \in Positions(workflow_templates[t]) |-> Pristine(workflow_templates[t][i])]

InFlightMeansProcessing ==
    (shutdown = NoShutdown /\ \E c \in 1..Len(calls) : calls[c].pc = "process")
        => agent_status = "processing"

\* C37: every agent_name a step of the three built-in templates uses is in the
\* registry of the workflow agent as AgentOrchestrator._initialize_agents leaves
\* it, so no step of a built-in workflow ends with "agent not found".
BuiltInAgentsRegistered ==
    request.template_id \in DOMAIN DefaultTemplates
        => \A i \in Positions(steps) :
              /\ steps[i].agent_name \in agent_registry
              /\ step_result[i] # "agent_not_found"

\* C38: after cancel_task has succeeded for a scheduled task, the task's status
\* stays CANCELLED and the scheduler loop creates no further execution of it,
\* also when the cancel arrives while an execution of the task is in flight.
CancelledTaskStaysCancelled ==
    [][\A id \in DOMAIN scheduled_tasks :
          scheduled_tasks[id].cancelled
              => /\ scheduled_tasks'[id].status = "cancelled"
                 /\ scheduled_tasks'[id].run = "created"
                       => scheduled_tasks[id].run = "created"]_vars
====
